---- MODULE Spec2Model ----
(***************************************************************************)
(* Model of DroneControl/comm.py: class DroneComm, the gateway between a   *)
(* companion computer and a Naze32 flight controller.  Commands go out as  *)
(* PWM pulse widths through an Adafruit PCA9685 generator, telemetry comes *)
(* in over a MultiWii serial link.                                         *)
(*                                                                         *)
(* Durations are integers in microseconds (the source keeps seconds as     *)
(* floats: 1.1ms = 0.0011 s = 1100 here; a trim of t us is stored as       *)
(* t * 1E-6 s = t here).  The input widths below are chosen so that the    *)
(* float comparisons and the float rounding of the source agree with the   *)
(* exact arithmetic of the model (no width/period pair is a rounding tie). *)
(*                                                                         *)
(* One action models one whole method call.  `events` is the sequence of   *)
(* calls the method made on its two collaborators (pwm.set_pwm, MultiWii   *)
(* constructor, getData, closeSerial), in program order; `out` is what it  *)
(* printed; `result` is how it ended.                                      *)
(***************************************************************************)
EXTENDS Integers, Sequences, FiniteSets, TLC

\* ------------------------------------------------------------------------
\* Class constants of DroneComm
\* ------------------------------------------------------------------------
MIN_WIDTH == 1100
MID_WIDTH == 1500
MAX_WIDTH == 1900
TICKS == 4096
ROLL_CHANNEL == 3
PITCH_CHANNEL == 2
YAW_CHANNEL == 1
\* range(6) in reset_channels
NUM_CHANNELS == 6
DEFAULT_PORT == "/dev/ttyUSB0"
None == "None"

\* ------------------------------------------------------------------------
\* Bounds and input sets
\* ------------------------------------------------------------------------
\* telemetry calls made on a board object
MaxGets == 2
\* MultiWii objects constructed over the lifetime of the gateway
MaxLinks == 2

Channels == 0 .. (NUM_CHANNELS - 1)
Periods == {22000, 20000}
TrimConfigs ==
    { [roll |-> 0,   pitch |-> 0,    yaw |-> 0],
      [roll |-> 100, pitch |-> -500, yaw |-> 0],
      [roll |-> 500, pitch |-> 0,    yaw |-> -100] }
Widths == {1000, 1100, 1500, 1850, 1900, 2000}
Ports == {None, DEFAULT_PORT}
Fields == {"angx", "angy", "heading"}
Args == Fields \cup {"altitude"}
Snapshots ==
    { [angx |-> 1, angy |-> 2, heading |-> 3],
      [angx |-> 4, angy |-> 5, heading |-> 6] }
ZeroSnapshot == [angx |-> 0, angy |-> 0, heading |-> 0]

VARIABLES
    period,     \* self.period (us)
    trim,       \* self.roll_pwm_trim / pitch_pwm_trim / yaw_pwm_trim (us)
    port,       \* the port argument of the constructor
    board,      \* self.board: 0 is None, n > 0 is the MultiWii object links[n]
    links,      \* every MultiWii object constructed so far
    pwm,        \* the generator's channels: last set_pwm per channel
    events,     \* collaborator calls made by the last method call
    out,        \* lines printed by the last method call
    lastOp,     \* name of the last method called
    lastArg,    \* its argument
    result,     \* how it ended
    nGet,       \* telemetry calls made on a board object
    nFetch,     \* getData calls made
    exited      \* exit() has been called

vars == <<period, trim, port, board, links, pwm, events, out,
          lastOp, lastArg, result, nGet, nFetch, exited>>

\* ------------------------------------------------------------------------
\* Results and events
\* ------------------------------------------------------------------------
Return(v) == [kind |-> "return", err |-> "", val |-> v]
ReturnNone == [kind |-> "none", err |-> "", val |-> 0]
Raise(e) == [kind |-> "raise", err |-> e, val |-> 0]

PwmEvent(channel, on, off, width) ==
    [call |-> "set_pwm", ch |-> channel, on |-> on, off |-> off,
     width |-> width, link |-> 0, snap |-> ZeroSnapshot]
LinkEvent(call, link, snap) ==
    [call |-> call, ch |-> 0, on |-> 0, off |-> 0,
     width |-> 0, link |-> link, snap |-> snap]

\* ------------------------------------------------------------------------
\* Python's round(n / d) for d > 0: nearest integer, ties to even
\* ------------------------------------------------------------------------
RoundDiv(n, d) ==
    LET q == n \div d
        r == n - q * d
    IN  IF 2 * r < d THEN q
        ELSE IF 2 * r > d THEN q + 1
        ELSE IF q % 2 = 0 THEN q ELSE q + 1

\* int(n / d) for n >= 0: truncation
TruncDiv(n, d) == n \div d

\* ------------------------------------------------------------------------
\* DroneComm.set_pwidth
\* ------------------------------------------------------------------------
set_pwidth_trunc(channel, width) ==
    PwmEvent(channel, 0, TruncDiv(width * TICKS, period), width)

set_pwidth(channel, width) ==
    PwmEvent(channel, 0, RoundDiv(width * TICKS, period), width)

\* ------------------------------------------------------------------------
\* DroneComm.validate_pwidth
\* ------------------------------------------------------------------------
validate_pwidth_inclusive(width) ==
    IF width >= MAX_WIDTH THEN <<MAX_WIDTH, FALSE>>
    ELSE IF width <= MIN_WIDTH THEN <<MIN_WIDTH, FALSE>>
    ELSE <<width, TRUE>>

validate_pwidth(width) ==
    IF width > MAX_WIDTH THEN <<MAX_WIDTH, FALSE>>
    ELSE IF width < MIN_WIDTH THEN <<MIN_WIDTH, FALSE>>
    ELSE <<width, TRUE>>

\* ------------------------------------------------------------------------
\* DroneComm.reset_channels
\* ------------------------------------------------------------------------
reset_channels_trim_first ==
    <<set_pwidth(ROLL_CHANNEL, MID_WIDTH + trim.roll),
      set_pwidth(PITCH_CHANNEL, MID_WIDTH + trim.pitch),
      set_pwidth(YAW_CHANNEL, MID_WIDTH + trim.yaw)>>
    \o [i \in 1 .. NUM_CHANNELS |-> set_pwidth(i - 1, MID_WIDTH)]

reset_channels ==
    [i \in 1 .. NUM_CHANNELS |-> set_pwidth(i - 1, MID_WIDTH)]
    \o <<set_pwidth(ROLL_CHANNEL, MID_WIDTH + trim.roll),
         set_pwidth(PITCH_CHANNEL, MID_WIDTH + trim.pitch),
         set_pwidth(YAW_CHANNEL, MID_WIDTH + trim.yaw)>>

\* ------------------------------------------------------------------------
\* The generator: set_pwm(channel, on, off) latches the channel
\* ------------------------------------------------------------------------
RECURSIVE ApplyEvents(_, _)
ApplyEvents(p, es) ==
    IF es = <<>> THEN p
    ELSE LET e == Head(es)
             p1 == IF e.call = "set_pwm"
                   THEN [p EXCEPT ![e.ch] =
                            [on |-> e.on, off |-> e.off, width |-> e.width]]
                   ELSE p
         IN  ApplyEvents(p1, Tail(es))

\* ------------------------------------------------------------------------
\* DroneComm.set_roll_pwidth / set_pitch_pwidth / set_yaw_pwidth
\* ------------------------------------------------------------------------
set_roll_pwidth(width) ==
    LET v == validate_pwidth(width + trim.roll)
    IN  [events |-> <<set_pwidth(ROLL_CHANNEL, v[1])>>,
         out |-> IF ~v[2] THEN <<"WARNING: Roll out of range!">> ELSE <<>>]

set_pitch_pwidth_wrong_channel(width) ==
    LET v == validate_pwidth(width + trim.pitch)
    IN  [events |-> <<set_pwidth(ROLL_CHANNEL, v[1])>>,
         out |-> IF ~v[2] THEN <<"WARNING: Pitch out of range!">> ELSE <<>>]

set_pitch_pwidth(width) ==
    LET v == validate_pwidth(width + trim.pitch)
    IN  [events |-> <<set_pwidth(PITCH_CHANNEL, v[1])>>,
         out |-> IF ~v[2] THEN <<"WARNING: Pitch out of range!">> ELSE <<>>]

set_yaw_pwidth(width) ==
    LET v == validate_pwidth(width + trim.yaw)
    IN  [events |-> <<set_pwidth(YAW_CHANNEL, v[1])>>,
         out |-> IF ~v[2] THEN <<"WARNING: Yaw out of range!">> ELSE <<>>]

\* ------------------------------------------------------------------------
\* The telemetry link (MultiWii): constructor, getData(ATTITUDE),
\* closeSerial.  getData refreshes the object's attitude with the snapshot
\* the flight controller sends; on a closed link it fails with LinkError.
\* ------------------------------------------------------------------------
MultiWii(p) == [port |-> p, open |-> TRUE, attitude |-> ZeroSnapshot]

getData(ls, b, snap) ==
    IF ls[b].open
    THEN [ok |-> TRUE, links |-> [ls EXCEPT ![b].attitude = snap],
          events |-> <<LinkEvent("getData", b, snap)>>]
    ELSE [ok |-> FALSE, links |-> ls,
          events |-> <<LinkEvent("getData", b, ZeroSnapshot)>>]

closeSerial(ls, b) == [ls EXCEPT ![b].open = FALSE]

\* ------------------------------------------------------------------------
\* DroneComm.get_roll / get_pitch / get_yaw
\* self.board.getData(MultiWii.ATTITUDE); return self.board.attitude[...]
\* With self.board = None the attribute lookup raises AttributeError.
\* ------------------------------------------------------------------------
get_roll_stale(snap) ==
    IF board = 0
    THEN [links |-> links, events |-> <<>>, result |-> Raise("AttributeError")]
    ELSE LET f == getData(links, board, snap)
         IN  [links |-> f.links, events |-> f.events,
              result |-> IF f.ok THEN Return(links[board].attitude.angx)
                         ELSE Raise("LinkError")]

get_roll(snap) ==
    IF board = 0
    THEN [links |-> links, events |-> <<>>, result |-> Raise("AttributeError")]
    ELSE LET f == getData(links, board, snap)
         IN  [links |-> f.links, events |-> f.events,
              result |-> IF f.ok THEN Return(f.links[board].attitude.angx)
                         ELSE Raise("LinkError")]

get_pitch(snap) ==
    IF board = 0
    THEN [links |-> links, events |-> <<>>, result |-> Raise("AttributeError")]
    ELSE LET f == getData(links, board, snap)
         IN  [links |-> f.links, events |-> f.events,
              result |-> IF f.ok THEN Return(f.links[board].attitude.angy)
                         ELSE Raise("LinkError")]

get_yaw(snap) ==
    IF board = 0
    THEN [links |-> links, events |-> <<>>, result |-> Raise("AttributeError")]
    ELSE LET f == getData(links, board, snap)
         IN  [links |-> f.links, events |-> f.events,
              result |-> IF f.ok THEN Return(f.links[board].attitude.heading)
                         ELSE Raise("LinkError")]

\* ------------------------------------------------------------------------
\* DroneComm.get_data: fetch first, then look at the argument; an argument
\* that names no field prints a message, closes the serial port and falls
\* off the end of the method (returns None).
\* ------------------------------------------------------------------------
get_data(arg, snap) ==
    IF board = 0
    THEN [links |-> links, events |-> <<>>, out |-> <<>>,
          result |-> Raise("AttributeError")]
    ELSE LET f == getData(links, board, snap)
         IN  IF ~f.ok
             THEN [links |-> f.links, events |-> f.events, out |-> <<>>,
                   result |-> Raise("LinkError")]
             ELSE IF arg \in Fields
             THEN [links |-> f.links, events |-> f.events, out |-> <<>>,
                   result |-> Return(f.links[board].attitude[arg])]
             ELSE [links |-> closeSerial(f.links, board),
                   events |-> f.events
                              \o <<LinkEvent("closeSerial", board, ZeroSnapshot)>>,
                   out |-> <<"Invalid argument\n">>,
                   result |-> ReturnNone]

\* ------------------------------------------------------------------------
\* DroneComm.exit: reset_channels(), then a new MultiWii on the default
\* port replaces self.board and is closed.
\* ------------------------------------------------------------------------
exit ==
    LET n == Len(links) + 1
    IN  [links |-> closeSerial(Append(links, MultiWii(DEFAULT_PORT)), n),
         board |-> n,
         events |-> reset_channels
                    \o <<LinkEvent("MultiWii", n, ZeroSnapshot),
                         LinkEvent("closeSerial", n, ZeroSnapshot)>>]

\* ------------------------------------------------------------------------
\* State machine
\* ------------------------------------------------------------------------
NumCalls(es, c) == Cardinality({i \in 1 .. Len(es) : es[i].call = c})

BlankPwm == [c \in Channels |-> [on |-> 0, off |-> 0, width |-> 0]]

\* DroneComm.__init__
Init ==
    /\ period \in Periods
    /\ trim \in TrimConfigs
    /\ port \in Ports
    /\ links = IF port = None THEN <<>> ELSE <<MultiWii(port)>>
    /\ board = IF port = None THEN 0 ELSE 1
    /\ events = (IF port = None THEN <<>>
                 ELSE <<LinkEvent("MultiWii", 1, ZeroSnapshot)>>)
                \o reset_channels
    /\ pwm = ApplyEvents(BlankPwm, events)
    /\ out = <<>>
    /\ lastOp = "__init__"
    /\ lastArg = ""
    /\ result = ReturnNone
    /\ nGet = 0
    /\ nFetch = 0
    /\ exited = FALSE

\* a command method: PWM writes, possibly a warning, returns None
Command(name, w, r) ==
    /\ events' = r.events
    /\ pwm' = ApplyEvents(pwm, r.events)
    /\ out' = r.out
    /\ lastOp' = name
    /\ lastArg' = w
    /\ result' = ReturnNone
    /\ UNCHANGED <<period, trim, port, board, links, nGet, nFetch, exited>>

SetRoll == \E w \in Widths : Command("set_roll_pwidth", w, set_roll_pwidth(w))

SetPitch == \E w \in Widths : Command("set_pitch_pwidth", w, set_pitch_pwidth(w))

SetYaw == \E w \in Widths : Command("set_yaw_pwidth", w, set_yaw_pwidth(w))

Reset == Command("reset_channels", 0, [events |-> reset_channels, out |-> <<>>])

\* a telemetry method
Telemetry(name, a, r, o) ==
    /\ nGet < MaxGets
    /\ links' = r.links
    /\ events' = r.events
    /\ pwm' = ApplyEvents(pwm, r.events)
    /\ out' = o
    /\ lastOp' = name
    /\ lastArg' = a
    /\ result' = r.result
    /\ nGet' = IF board = 0 THEN nGet ELSE nGet + 1
    /\ nFetch' = nFetch + NumCalls(r.events, "getData")
    /\ UNCHANGED <<period, trim, port, board, exited>>

GetRoll == \E s \in Snapshots : Telemetry("get_roll", "angx", get_roll(s), <<>>)

GetPitch == \E s \in Snapshots : Telemetry("get_pitch", "angy", get_pitch(s), <<>>)

GetYaw == \E s \in Snapshots : Telemetry("get_yaw", "heading", get_yaw(s), <<>>)

GetData ==
    \E a \in Args, s \in Snapshots :
        Telemetry("get_data", a, get_data(a, s), get_data(a, s).out)

Exit ==
    /\ Len(links) < MaxLinks
    /\ links' = exit.links
    /\ board' = exit.board
    /\ events' = exit.events
    /\ pwm' = ApplyEvents(pwm, exit.events)
    /\ out' = <<>>
    /\ lastOp' = "exit"
    /\ lastArg' = ""
    /\ result' = ReturnNone
    /\ exited' = TRUE
    /\ UNCHANGED <<period, trim, port, nGet, nFetch>>

Next ==
    \/ SetRoll
    \/ SetPitch
    \/ SetYaw
    \/ Reset
    \/ GetRoll
    \/ GetPitch
    \/ GetYaw
    \/ GetData
    \/ Exit

Spec == Init /\ [][Next]_vars

\* ------------------------------------------------------------------------
\* Vocabulary of the properties
\* ------------------------------------------------------------------------
CommandOps ==
    {"set_roll_pwidth", "set_pitch_pwidth", "set_yaw_pwidth", "reset_channels"}

GetterOps == {"get_roll", "get_pitch", "get_yaw"}

TelemetryOps == GetterOps \cup {"get_data"}

Axes ==
    { [op |-> "set_roll_pwidth", ch |-> ROLL_CHANNEL, tr |-> trim.roll,
       warn |-> "WARNING: Roll out of range!"],
      [op |-> "set_pitch_pwidth", ch |-> PITCH_CHANNEL, tr |-> trim.pitch,
       warn |-> "WARNING: Pitch out of range!"],
      [op |-> "set_yaw_pwidth", ch |-> YAW_CHANNEL, tr |-> trim.yaw,
       warn |-> "WARNING: Yaw out of range!"] }

AuxChannels == Channels \ {ROLL_CHANNEL, PITCH_CHANNEL, YAW_CHANNEL}

PwmWrites == {i \in 1 .. Len(events) : events[i].call = "set_pwm"}

Clamp(x) ==
    LET lo == IF x < MAX_WIDTH THEN x ELSE MAX_WIDTH
    IN  IF lo > MIN_WIDTH THEN lo ELSE MIN_WIDTH

Abs(x) == IF x < 0 THEN -x ELSE x

\* ------------------------------------------------------------------------
\* C1: every pulse width handed to pwm.set_pwm, by any method and for any
\* trims, lies in [MIN_WIDTH, MAX_WIDTH].
\* ------------------------------------------------------------------------
C1_EveryWriteInRange ==
    \A i \in PwmWrites :
        /\ events[i].width >= MIN_WIDTH
        /\ events[i].width <= MAX_WIDTH

\* ------------------------------------------------------------------------
\* C2: set_X_pwidth(w) programs channel X with w + trim[X] clamped to
\* [MIN_WIDTH, MAX_WIDTH], prints the warning of axis X exactly when
\* w + trim[X] is outside that range, and prints nothing otherwise; the
\* write happens in both cases.
\* ------------------------------------------------------------------------
C2_SetAppliesTrimThenClamps ==
    \A ax \in Axes :
        lastOp = ax.op =>
            LET e == lastArg + ax.tr
            IN  /\ PwmWrites # {}
                /\ \A i \in PwmWrites :
                       /\ events[i].ch = ax.ch
                       /\ events[i].width = Clamp(e)
                /\ pwm[ax.ch].width = Clamp(e)
                /\ (e < MIN_WIDTH \/ e > MAX_WIDTH) => out = <<ax.warn>>
                /\ (e >= MIN_WIDTH /\ e <= MAX_WIDTH) => out = <<>>

\* a width inside the range that the trim pushes above it
C2_Witness ==
    /\ lastOp = "set_roll_pwidth"
    /\ lastArg = 1850
    /\ trim.roll = 100
    /\ pwm[ROLL_CHANNEL].width = MAX_WIDTH
    /\ out = <<"WARNING: Roll out of range!">>

\* ------------------------------------------------------------------------
\* C3: after reset_channels() the roll, pitch and yaw channels hold
\* MID_WIDTH + trim[axis] and every other channel in 0..5 holds MID_WIDTH.
\* ------------------------------------------------------------------------
C3_ResetProgramsMidPlusTrim ==
    lastOp = "reset_channels" =>
        /\ pwm[ROLL_CHANNEL].width = MID_WIDTH + trim.roll
        /\ pwm[PITCH_CHANNEL].width = MID_WIDTH + trim.pitch
        /\ pwm[YAW_CHANNEL].width = MID_WIDTH + trim.yaw
        /\ \A c \in AuxChannels : pwm[c].width = MID_WIDTH

C3_Witness ==
    /\ lastOp = "reset_channels"
    /\ trim.roll = 100
    /\ trim.pitch = -500
    /\ pwm[ROLL_CHANNEL].width = 1600
    /\ pwm[PITCH_CHANNEL].width = 1000
    /\ pwm[0].width = MID_WIDTH

\* ------------------------------------------------------------------------
\* C4: once exit() has been called, a later command (set_roll_pwidth,
\* set_pitch_pwidth, set_yaw_pwidth, reset_channels) fails with
\* InvalidState and writes nothing to the generator.
\* ------------------------------------------------------------------------
C4_NoCommandAfterExit ==
    (exited /\ lastOp \in CommandOps) =>
        /\ result = Raise("InvalidState")
        /\ PwmWrites = {}

\* ------------------------------------------------------------------------
\* C5: exit() resets the channels first and then closes the link the
\* constructor opened; it constructs no new link, and afterwards that
\* original link is closed.
\* ------------------------------------------------------------------------
C5_ExitClosesAcquiredLink ==
    (lastOp = "exit" /\ port # None) =>
        /\ NumCalls(events, "MultiWii") = 0
        /\ SubSeq(events, 1, Len(reset_channels)) = reset_channels
        /\ events[Len(events)].call = "closeSerial"
        /\ events[Len(events)].link = 1
        /\ ~links[1].open

\* ------------------------------------------------------------------------
\* C6: a gateway constructed with port = None fails every telemetry call
\* with the error of the missing link (AttributeError on None), makes no
\* fetch and no PWM write.
\* ------------------------------------------------------------------------
C6_NoLinkTelemetryFails ==
    (port = None /\ lastOp \in TelemetryOps) =>
        /\ result = Raise("AttributeError")
        /\ events = <<>>

\* ------------------------------------------------------------------------
\* C7: a get_roll / get_pitch / get_yaw call on a board makes exactly one
\* getData call and nothing else, and what it returns is the requested
\* field of the snapshot that getData call produced; over the whole run
\* the number of getData calls equals the number of telemetry calls made
\* on a board.
\* ------------------------------------------------------------------------
C7_OneFreshFetchPerGetter ==
    /\ nFetch = nGet
    /\ (lastOp \in GetterOps /\ board # 0) =>
           /\ Len(events) = 1
           /\ events[1].call = "getData"
           /\ events[1].link = board
           /\ links[board].open => result = Return(events[1].snap[lastArg])
           /\ ~links[board].open => result = Raise("LinkError")

C7_Witness ==
    /\ lastOp = "get_roll"
    /\ nGet = 2
    /\ nFetch = 2
    /\ result = Return(4)

\* ------------------------------------------------------------------------
\* C8: get_data asked for a field other than angx, angy, heading ends in
\* an explicit failure delivered to the caller, not in a silent return.
\* ------------------------------------------------------------------------
C8_InvalidFieldFails ==
    (lastOp = "get_data" /\ lastArg \notin Fields) => result.kind = "raise"

\* ------------------------------------------------------------------------
\* C9: every set_pwm call made for a width w has on = 0 and off = the
\* integer nearest to w / period * TICKS, whatever w is (no clamping in
\* set_pwidth); for w = MID_WIDTH and period = 22000 us off is 279.
\* ------------------------------------------------------------------------
C9_TicksAreRoundedWidth ==
    \A i \in PwmWrites :
        /\ events[i].on = 0
        /\ 2 * Abs(events[i].off * period - events[i].width * TICKS) <= period
        /\ (period = 22000 /\ events[i].width = MID_WIDTH) => events[i].off = 279

\* a mid-width write at the default period, next to an unclamped write
\* above MAX_WIDTH
C9_Witness ==
    /\ period = 22000
    /\ \E i \in PwmWrites : events[i].width = MID_WIDTH /\ events[i].off = 279
    /\ \E i \in PwmWrites : events[i].width = 2000 /\ events[i].off = 372

\* ------------------------------------------------------------------------
\* C10: a set_X_pwidth call makes exactly one set_pwm call, on the channel
\* of X, and leaves every other channel and the trims as they were; the
\* channels mapped to no axis (0, 4, 5) hold MID_WIDTH in every state.
\* ------------------------------------------------------------------------
C10_SetStep ==
    \A ax \in Axes :
        lastOp' = ax.op =>
            /\ Len(events') = 1
            /\ events'[1].call = "set_pwm"
            /\ events'[1].ch = ax.ch
            /\ \A c \in Channels \ {ax.ch} : pwm'[c] = pwm[c]
            /\ trim' = trim

C10_AuxHoldMid == \A c \in AuxChannels : pwm[c].width = MID_WIDTH

C10_SetWritesOnlyOwnChannel ==
    /\ []C10_AuxHoldMid
    /\ [][C10_SetStep]_vars

\* pitch was set after roll and yaw, which keep what they were given
C10_Witness ==
    /\ lastOp = "set_pitch_pwidth"
    /\ trim.roll = 0
    /\ pwm[PITCH_CHANNEL].width = MIN_WIDTH
    /\ pwm[ROLL_CHANNEL].width = MAX_WIDTH
    /\ pwm[YAW_CHANNEL].width = 1850
    /\ pwm[0].width = MID_WIDTH
====
